---- MODULE Spec2Model ----
(***************************************************************************)
(* Expense bot (src/bot.py): the free-text expense handler, the period     *)
(* report with its pagination, the category listing and the clear command, *)
(* over a relational store with one table `expenses`.                      *)
(*                                                                         *)
(* Texts are sequences of one-character strings.  A Python float is a      *)
(* record [k, v]: k is "fin", "nan", "inf" or "ninf" and, for "fin", v is  *)
(* the value in half units (v = 5 is 2.5).  Arithmetic keeps MantBits      *)
(* significant bits (binary64 keeps 53), the REAL column RealBits (float4  *)
(* keeps 24), both with round-half-to-even.                                *)
(***************************************************************************)
EXTENDS Integers, Sequences, FiniteSets, TLC

VARIABLES store, nextId, now, ticks, last

vars == <<store, nextId, now, ticks, last>>

(***************************************************************************)
(* Bounds of the model.                                                    *)
(***************************************************************************)
MaxRecords == 2      \* rows the table holds in Spec
MaxTicks == 1        \* clock advances
MantBits == 8        \* significant bits of a float in the model
RealBits == 5        \* significant bits of the REAL column in the model

\* the ids of the users who write to the bot
Users == {1, 2}

(***************************************************************************)
(* Characters and strings.                                                 *)
(***************************************************************************)
Space == {" ", "\n"}
Digits == {"0", "1", "2", "3", "4", "5", "6", "7", "8", "9"}

DigitVal(c) ==
  CASE c = "0" -> 0 [] c = "1" -> 1 [] c = "2" -> 2 [] c = "3" -> 3
    [] c = "4" -> 4 [] c = "5" -> 5 [] c = "6" -> 6 [] c = "7" -> 7
    [] c = "8" -> 8 [] c = "9" -> 9

DigitChar(d) ==
  CASE d = 0 -> "0" [] d = 1 -> "1" [] d = 2 -> "2" [] d = 3 -> "3"
    [] d = 4 -> "4" [] d = 5 -> "5" [] d = 6 -> "6" [] d = 7 -> "7"
    [] d = 8 -> "8" [] d = 9 -> "9"

\* str.lower() and str.upper() on the letters the model's texts use
LowerChar(c) ==
  CASE c = "T" -> "t" [] c = "A" -> "a" [] c = "X" -> "x" [] c = "I" -> "i"
    [] c = "N" -> "n" [] c = "F" -> "f" [] OTHER -> c

UpperChar(c) ==
  CASE c = "t" -> "T" [] c = "a" -> "A" [] c = "x" -> "X" [] c = "i" -> "I"
    [] c = "n" -> "N" [] c = "f" -> "F" [] OTHER -> c

Lower(s) == [i \in 1..Len(s) |-> LowerChar(s[i])]

Upper(s) == [i \in 1..Len(s) |-> UpperChar(s[i])]

\* s.replace(',', '.')
ReplaceComma(s) == [i \in 1..Len(s) |-> IF s[i] = "," THEN "." ELSE s[i]]

\* the k-th smallest element of a set of numbers
Kth(S, k) == CHOOSE s \in S : Cardinality({t \in S : t <= s}) = k

\* text.strip().split(): the maximal runs of non-whitespace, in order
Split(text) ==
  LET n == Len(text)
      starts == {i \in 1..n : text[i] \notin Space /\ (i = 1 \/ text[i - 1] \in Space)}
      ends == {i \in 1..n : text[i] \notin Space /\ (i = n \/ text[i + 1] \in Space)}
  IN  [k \in 1..Cardinality(starts) |-> SubSeq(text, Kth(starts, k), Kth(ends, k))]

\* ' '.join(parts)
RECURSIVE Join(_)
Join(parts) ==
  IF parts = <<>> THEN <<>>
  ELSE IF Len(parts) = 1 THEN parts[1]
  ELSE parts[1] \o <<" ">> \o Join(Tail(parts))

(***************************************************************************)
(* Floats.                                                                 *)
(***************************************************************************)
Fin(v) == [k |-> "fin", v |-> v]
NaN == [k |-> "nan", v |-> 0]
PosInf == [k |-> "inf", v |-> 0]
NegInf == [k |-> "ninf", v |-> 0]

RECURSIVE Pow2(_)
Pow2(n) == IF n = 0 THEN 1 ELSE 2 * Pow2(n - 1)

\* the number of bits of n > 0
RECURSIVE BitLen(_)
BitLen(n) == IF n = 0 THEN 0 ELSE 1 + BitLen(n \div 2)

\* n >= 0 rounded to `bits` significant bits, ties to even
RoundNat(n, bits) ==
  IF BitLen(n) <= bits THEN n
  ELSE LET q == Pow2(BitLen(n) - bits)
           lo == n \div q
           r == n % q
           up == (2 * r > q) \/ (2 * r = q /\ lo % 2 = 1)
       IN  (IF up THEN lo + 1 ELSE lo) * q

RoundTo(v, bits) == IF v < 0 THEN 0 - RoundNat(0 - v, bits) ELSE RoundNat(v, bits)

\* a + b of two floats
FAdd(a, b) ==
  IF a.k = "nan" \/ b.k = "nan" THEN NaN
  ELSE IF a.k = "fin" /\ b.k = "fin" THEN Fin(RoundTo(a.v + b.v, MantBits))
  ELSE IF a.k = "fin" THEN b
  ELSE IF b.k = "fin" THEN a
  ELSE IF a.k = b.k THEN a
  ELSE NaN

\* a < b of two floats (False when either is nan)
FLess(a, b) ==
  /\ a.k # "nan"
  /\ b.k # "nan"
  /\ \/ a.k = "ninf" /\ b.k # "ninf"
     \/ a.k # "inf" /\ b.k = "inf"
     \/ a.k = "fin" /\ b.k = "fin" /\ a.v < b.v

\* the value a float takes in a REAL column
ToReal(a) == IF a.k = "fin" THEN Fin(RoundTo(a.v, RealBits)) ELSE a

RECURSIVE DigitsVal(_)
DigitsVal(s) ==
  IF s = <<>> THEN 0
  ELSE 10 * DigitsVal(SubSeq(s, 1, Len(s) - 1)) + DigitVal(s[Len(s)])

Dots(s) == {i \in 1..Len(s) : s[i] = "."}

Unsigned(s) ==
  IF s # <<>> /\ s[1] \in {"+", "-"} THEN SubSeq(s, 2, Len(s)) ELSE s

Negative(s) == s # <<>> /\ s[1] = "-"

\* decimal literal: digits with at most one point and at least one digit
IsDecimal(b) ==
  /\ \A i \in 1..Len(b) : b[i] \in Digits \cup {"."}
  /\ Cardinality(Dots(b)) <= 1
  /\ \E i \in 1..Len(b) : b[i] \in Digits

IsInfWord(b) ==
  Lower(b) \in {<<"i", "n", "f">>, <<"i", "n", "f", "i", "n", "i", "t", "y">>}

IsNanWord(b) == Lower(b) = <<"n", "a", "n">>

\* float(s) does not raise ValueError
IsFloatStr(s) ==
  LET b == Unsigned(s) IN IsDecimal(b) \/ IsInfWord(b) \/ IsNanWord(b)

RECURSIVE Pow10(_)
Pow10(k) == IF k = 0 THEN 1 ELSE 10 * Pow10(k - 1)

\* the fraction 0.d1d2... in half units, to the nearest, ties to even
FracHalves(f) ==
  LET n == DigitsVal(f)
      d == Pow10(Len(f))
      lo == (2 * n) \div d
      r == (2 * n) % d
  IN  IF 2 * r > d \/ (2 * r = d /\ lo % 2 = 1) THEN lo + 1 ELSE lo

DecimalHalves(b) ==
  LET p == IF Dots(b) = {} THEN Len(b) + 1 ELSE CHOOSE i \in Dots(b) : TRUE
      ip == SubSeq(b, 1, p - 1)
      fp == SubSeq(b, p + 1, Len(b))
  IN  2 * DigitsVal(ip) + FracHalves(fp)

\* float(s), for s with IsFloatStr(s)
FloatOf(s) ==
  LET b == Unsigned(s) IN
  IF IsNanWord(b) THEN NaN
  ELSE IF IsInfWord(b) THEN (IF Negative(s) THEN NegInf ELSE PosInf)
  ELSE LET m == RoundNat(DecimalHalves(b), MantBits)
       IN  Fin(IF Negative(s) THEN 0 - m ELSE m)

RECURSIVE NatStr(_)
NatStr(n) ==
  IF n < 10 THEN <<DigitChar(n)>> ELSE Append(NatStr(n \div 10), DigitChar(n % 10))

\* str(a) of a float, as an f-string formats it
FloatStr(a) ==
  IF a.k = "nan" THEN <<"n", "a", "n">>
  ELSE IF a.k = "inf" THEN <<"i", "n", "f">>
  ELSE IF a.k = "ninf" THEN <<"-", "i", "n", "f">>
  ELSE LET m == IF a.v < 0 THEN 0 - a.v ELSE a.v
           body == NatStr(m \div 2) \o <<".", (IF m % 2 = 1 THEN "5" ELSE "0")>>
       IN  IF a.v < 0 THEN <<"-">> \o body ELSE body

(***************************************************************************)
(* handle_expense: the parse of one message.                               *)
(***************************************************************************)
\* parts[i] with Python's indices, from 0
At(parts, i) == parts[i + 1]

\* float(parts[i].replace(',', '.')) does not raise
Converts(tok) == IsFloatStr(ReplaceComma(tok))

ToAmount(tok) == FloatOf(ReplaceComma(tok))

\* variant: a lone token is enough
TooFewBelowOne(parts) == Len(parts) < 1

\* len(parts) < 2
TooFew(parts) == Len(parts) < 2

\* variant: the first token as typed
CategoryAsTyped(parts) == At(parts, 0)

\* category = parts[0].lower()
CategoryOf(parts) == Lower(At(parts, 0))

\* the first index the loop over range(1, len(parts)) converts, or -1
RECURSIVE ScanFrom(_, _)
ScanFrom(parts, i) ==
  IF i >= Len(parts) THEN 0 - 1
  ELSE IF Converts(At(parts, i)) THEN i
  ELSE ScanFrom(parts, i + 1)

\* variant: the loop starts at index 0
AmountIndexFromZero(parts) == ScanFrom(parts, 0)

AmountIndex(parts) == ScanFrom(parts, 1)

\* variant: the slice starts at index 0
DescriptionFromZero(parts, category, amount_index) ==
  IF amount_index = 1 THEN category
  ELSE Join(SubSeq(parts, 1, amount_index))

\* the description: the category, or parts[1:amount_index] joined
DescriptionOf(parts, category, amount_index) ==
  IF amount_index = 1 THEN category
  ELSE Join(SubSeq(parts, 2, amount_index))

\* what handle_expense makes of a text before it reaches the store
Parse(text) ==
  LET parts == Split(text) IN
  IF TooFew(parts) THEN [status |-> "TooFewTokens"]
  ELSE LET category == CategoryOf(parts)
           k == AmountIndex(parts)
       IN  IF k < 0 THEN [status |-> "NoAmountFound"]
           ELSE [status |-> "ok",
                 category |-> category,
                 amount |-> ToAmount(At(parts, k)),
                 amount_index |-> k,
                 description |-> DescriptionOf(parts, category, k)]

(***************************************************************************)
(* The store: the table `expenses`.  Timestamps are distinct and grow with *)
(* the serial id; `date` keeps their day.                                  *)
(***************************************************************************)
\* the row INSERT adds
NewRow(id, user_id, amount, category, description, date) ==
  [id |-> id, user_id |-> user_id, amount |-> ToReal(amount),
   category |-> category, description |-> description, date |-> date]

\* the rows with user_id = u
RowsOf(st, u) == {r \in st : r.user_id = u}

\* variant: DELETE without its WHERE clause
DeleteEveryone(st, u) == {}

\* the rows DELETE FROM expenses WHERE user_id = u leaves
DeleteAll(st, u) == {r \in st : r.user_id # u}

\* WHERE user_id = u [AND date >= now - days]; days = 0 stands for None
Selected(st, u, days, today) ==
  {r \in RowsOf(st, u) : days = 0 \/ r.date >= today - days}

\* ORDER BY date DESC
RECURSIVE NewestFirst(_)
NewestFirst(rows) ==
  IF rows = {} THEN <<>>
  ELSE LET r == CHOOSE x \in rows : \A y \in rows : y.id <= x.id
       IN  <<r>> \o NewestFirst(rows \ {r})

GetExpenses(st, u, days, today) == NewestFirst(Selected(st, u, days, today))

\* SELECT DISTINCT category ... WHERE user_id = u
GetCategoriesList(st, u) == {r.category : r \in RowsOf(st, u)}

(***************************************************************************)
(* show_period: grouping, rendering and pagination.  A text is a sequence  *)
(* of lines; LineLen is the number of characters the f-string of the line  *)
(* produces, its newline included.                                         *)
(***************************************************************************)
SingleLimit == 4000   \* len(text) > 4000
BlockLimit == 3900    \* len(current_msg) + len(category_text) > 3900
SingleCap == 15       \* items[:15]
PagedCap == 10        \* items[:10]
TelegramMax == 4096   \* the transport's maximum message length
TodayDays == 1
WeekDays == 7
MonthDays == 30

Periods == {"today", "week", "month", "all"}

\* the days each command passes to show_period; 0 stands for None
DaysOf(period) ==
  CASE period = "today" -> TodayDays [] period = "week" -> WeekDays
    [] period = "month" -> MonthDays [] period = "all" -> 0

\* len(period_name)
PeriodNameLen(period) ==
  CASE period = "today" -> 7 [] period = "week" -> 6
    [] period = "month" -> 5 [] period = "all" -> 9

\* categories_data, in the order the categories are first seen
RECURSIVE GroupFrom(_, _, _)
GroupFrom(expenses, i, acc) ==
  IF i > Len(expenses) THEN acc
  ELSE LET exp == expenses[i]
           item == [amount |-> exp.amount, description |-> exp.description,
                    date |-> exp.date]
           at == {j \in 1..Len(acc) : acc[j].category = exp.category}
       IN  IF at = {}
             THEN GroupFrom(expenses, i + 1,
                            Append(acc, [category |-> exp.category, items |-> <<item>>]))
             ELSE LET j == CHOOSE x \in at : TRUE
                  IN  GroupFrom(expenses, i + 1,
                                [acc EXCEPT ![j].items = Append(@, item)])

Group(expenses) == GroupFrom(expenses, 1, <<>>)

\* sum(item['amount'] for item in items)
RECURSIVE SumFrom(_, _, _)
SumFrom(items, i, acc) ==
  IF i > Len(items) THEN acc ELSE SumFrom(items, i + 1, FAdd(acc, items[i].amount))

SumAmounts(items) == SumFrom(items, 1, Fin(0))

\* total, accumulated over every row in the loop that groups them
GrandTotal(expenses) == SumAmounts(expenses)

\* sorted(..., key=category sum, reverse=True): stable, largest sum first
RECURSIVE SortFrom(_, _, _)
SortFrom(groups, i, acc) ==
  IF i > Len(groups) THEN acc
  ELSE LET g == groups[i]
           before == {j \in 1..Len(acc) :
                        FLess(SumAmounts(acc[j].items), SumAmounts(g.items))}
           p == IF before = {} THEN Len(acc) + 1
                ELSE CHOOSE j \in before : \A x \in before : j <= x
       IN  SortFrom(groups, i + 1,
                    SubSeq(acc, 1, p - 1) \o <<g>> \o SubSeq(acc, p, Len(acc)))

SortedCategories(groups) == SortFrom(groups, 1, <<>>)

HeaderLine(period) == [t |-> "header", period |-> period]

TotalLine(total) == [t |-> "total", total |-> total]

ItemLines(items) ==
  [i \in 1..Len(items) |->
     [t |-> "item", description |-> items[i].description,
      amount |-> items[i].amount, date |-> items[i].date]]

\* the lines of one category with at most `cap` items shown
CategoryText(g, cap) ==
  LET shown == SubSeq(g.items, 1, IF Len(g.items) < cap THEN Len(g.items) ELSE cap)
  IN  <<[t |-> "cat", category |-> Upper(g.category), total |-> SumAmounts(g.items)]>>
      \o ItemLines(shown)
      \o (IF Len(g.items) > cap
            THEN <<[t |-> "more", n |-> Len(g.items) - cap]>> ELSE <<>>)
      \o <<[t |-> "blank"]>>

LineLen(l) ==
  CASE l.t = "header" -> 13 + PeriodNameLen(l.period) + 3
    [] l.t = "cat" -> 2 + Len(l.category) + 2 + Len(FloatStr(l.total)) + 3
    [] l.t = "item" -> 4 + Len(l.description) + 2 + Len(FloatStr(l.amount)) + 4 + 5 + 2
    [] l.t = "more" -> 12 + Len(NatStr(l.n)) + 9
    [] l.t = "blank" -> 1
    [] l.t = "total" -> 9 + Len(FloatStr(l.total)) + 2

RECURSIVE LenFrom(_, _, _)
LenFrom(text, i, acc) ==
  IF i > Len(text) THEN acc ELSE LenFrom(text, i + 1, acc + LineLen(text[i]))

\* len(text)
TextLen(text) == LenFrom(text, 1, 0)

RECURSIVE AllCategoryTexts(_, _, _)
AllCategoryTexts(sorted, i, cap) ==
  IF i > Len(sorted) THEN <<>>
  ELSE CategoryText(sorted[i], cap) \o AllCategoryTexts(sorted, i + 1, cap)

\* the text of the report as one message
SingleText(sorted, period, total) ==
  <<HeaderLine(period)>> \o AllCategoryTexts(sorted, 1, SingleCap) \o <<TotalLine(total)>>

\* variant: the closed buffer is replaced by an empty one
PackStepDropping(st, category_text) ==
  IF TextLen(st.current) + TextLen(category_text) > BlockLimit
    THEN [messages |-> Append(st.messages, st.current), current |-> <<>>]
    ELSE [messages |-> st.messages, current |-> st.current \o category_text]

\* one turn of the pagination loop: close the buffer or extend it
PackStep(st, category_text) ==
  IF TextLen(st.current) + TextLen(category_text) > BlockLimit
    THEN [messages |-> Append(st.messages, st.current), current |-> category_text]
    ELSE [messages |-> st.messages, current |-> st.current \o category_text]

RECURSIVE PackFrom(_, _, _)
PackFrom(sorted, i, st) ==
  IF i > Len(sorted) THEN st
  ELSE PackFrom(sorted, i + 1, PackStep(st, CategoryText(sorted[i], PagedCap)))

\* the messages of the paginated report
PagedMessages(sorted, period, total) ==
  LET st == PackFrom(sorted, 1, [messages |-> <<>>, current |-> <<HeaderLine(period)>>])
  IN  IF st.current # <<>>
        THEN Append(st.messages, st.current \o <<TotalLine(total)>>)
        ELSE st.messages

\* the texts show_period passes to reply_text for a non-empty result
RenderReport(expenses, period) ==
  LET sorted == SortedCategories(Group(expenses))
      total == GrandTotal(expenses)
      text == SingleText(sorted, period, total)
  IN  IF TextLen(text) > SingleLimit
        THEN [paged |-> TRUE, texts |-> PagedMessages(sorted, period, total)]
        ELSE [paged |-> FALSE, texts |-> <<text>>]

(***************************************************************************)
(* Messages the users send.                                                *)
(***************************************************************************)
MaxParseTokens == 4  \* tokens of a message in SpecParse

TokWord == <<"T", "a">>
TokAmount == <<"2", ",", "5">>
TokMinus == <<"-", "5">>
TokSeven == <<"7">>
TokNan == <<"N", "a", "N">>
TokDotted == <<"1", ".", "2", ",", "5">>

ParseTokens == {TokWord, TokAmount, TokMinus, TokSeven, TokNan, TokDotted}

Layouts == {"plain", "padded"}

RECURSIVE Glue(_, _)
Glue(toks, sep) ==
  IF Len(toks) = 1 THEN toks[1] ELSE toks[1] \o sep \o Glue(Tail(toks), sep)

\* the text of a message with the given tokens
Build(toks, layout) ==
  IF layout = "plain" THEN Glue(toks, <<" ">>)
  ELSE <<" ">> \o Glue(toks, <<"\n", " ">>) \o <<"\n">>

TokenSeqs(tokens, maxn) == UNION {[1..n -> tokens] : n \in 1..maxn}

\* the messages of Spec: a label with an amount, an amount under a numeric
\* category, a lone word
MainTexts ==
  {Build(<<TokWord, TokAmount>>, "plain"), Build(<<TokAmount, TokMinus>>, "plain"),
   Build(<<TokWord>>, "plain")}

ParseTexts ==
  {Build(ts, l) : ts \in TokenSeqs(ParseTokens, MaxParseTokens), l \in Layouts}

(***************************************************************************)
(* The handlers.  `last` is the request handled last and the replies it    *)
(* was sent, in order.                                                     *)
(***************************************************************************)
Request(kind, u, text, period, failed, expenses, replies) ==
  [kind |-> kind, user |-> u, text |-> text, period |-> period,
   failed |-> failed, expenses |-> expenses, replies |-> replies]

NoRequest == Request("none", 0, <<>>, "none", FALSE, <<>>, <<>>)

\* handle_expense; fail: the store call raises
HandleExpense(u, text, fail) ==
  LET p == Parse(text) IN
  /\ UNCHANGED <<now, ticks>>
  /\ IF p.status = "TooFewTokens"
       THEN /\ last' = Request("expense", u, text, "none", FALSE, <<>>,
                               <<[kind |-> "too_few"]>>)
            /\ UNCHANGED <<store, nextId>>
     ELSE IF p.status = "NoAmountFound"
       THEN /\ last' = Request("expense", u, text, "none", FALSE, <<>>,
                               <<[kind |-> "no_amount"]>>)
            /\ UNCHANGED <<store, nextId>>
     ELSE IF fail
       THEN /\ last' = Request("expense", u, text, "none", TRUE, <<>>,
                               <<[kind |-> "error"]>>)
            /\ UNCHANGED <<store, nextId>>
     ELSE /\ store' = store \cup
                 {NewRow(nextId, u, p.amount, p.category, p.description, now)}
          /\ nextId' = nextId + 1
          /\ last' = Request("expense", u, text, "none", FALSE, <<>>,
                             <<[kind |-> "recorded", category |-> p.category,
                                description |-> p.description, amount |-> p.amount]>>)

\* the messages of a report
BlockReplies(texts) == [i \in 1..Len(texts) |-> [kind |-> "block", text |-> texts[i]]]

\* show_period, reached from /today, /week, /month and /all
ShowPeriod(u, period, fail) ==
  /\ UNCHANGED <<store, nextId, now, ticks>>
  /\ IF fail
       THEN last' = Request("report", u, <<>>, period, TRUE, <<>>, <<>>)
     ELSE LET expenses == GetExpenses(store, u, DaysOf(period), now) IN
          IF expenses = <<>>
            THEN last' = Request("report", u, <<>>, period, FALSE, expenses,
                                 <<[kind |-> "empty"]>>)
            ELSE last' = Request("report", u, <<>>, period, FALSE, expenses,
                                 BlockReplies(RenderReport(expenses, period).texts))

\* the listing: categories with a sum in the window, then the others with 0
Listing(categories, expenses) ==
  LET sorted == SortedCategories(Group(expenses))
      active == [i \in 1..Len(sorted) |->
                   [category |-> sorted[i].category,
                    total |-> SumAmounts(sorted[i].items)]]
  IN  [kind |-> "categories", active |-> active,
       idle |-> categories \ {sorted[i].category : i \in 1..Len(sorted)}]

\* categories_list; failAt: the store call that raises (0: none)
CategoriesList(u, failAt) ==
  /\ UNCHANGED <<store, nextId, now, ticks>>
  /\ IF failAt = 1
       THEN last' = Request("categories", u, <<>>, "none", TRUE, <<>>, <<>>)
     ELSE LET categories == GetCategoriesList(store, u) IN
          IF categories = {}
            THEN last' = Request("categories", u, <<>>, "none", FALSE, <<>>,
                                 <<[kind |-> "no_categories"]>>)
          ELSE IF failAt = 2
            THEN last' = Request("categories", u, <<>>, "none", TRUE, <<>>, <<>>)
          ELSE LET expenses == GetExpenses(store, u, MonthDays, now) IN
               last' = Request("categories", u, <<>>, "none", FALSE, expenses,
                               <<Listing(categories, expenses)>>)

\* clear_data
ClearData(u, fail) ==
  /\ UNCHANGED <<nextId, now, ticks>>
  /\ IF fail
       THEN /\ last' = Request("clear", u, <<>>, "none", TRUE, <<>>, <<>>)
            /\ UNCHANGED store
       ELSE /\ store' = DeleteAll(store, u)
            /\ last' = Request("clear", u, <<>>, "none", FALSE, <<>>,
                               <<[kind |-> "cleared",
                                  deleted |-> Cardinality(store \ DeleteAll(store, u))]>>)

\* start
Start(u) ==
  /\ UNCHANGED <<store, nextId, now, ticks>>
  /\ last' = Request("start", u, <<>>, "none", FALSE, <<>>, <<[kind |-> "welcome"]>>)

\* the server clock moves on by d days
Tick(d) ==
  /\ ticks < MaxTicks
  /\ now' = now + d
  /\ ticks' = ticks + 1
  /\ UNCHANGED <<store, nextId, last>>

TickDays == {WeekDays}

\* the table takes the row a message would add
Room(text, fail, cap) == (Parse(text).status = "ok" /\ ~fail) => nextId <= cap

Init ==
  /\ store = {}
  /\ nextId = 1
  /\ now = 0
  /\ ticks = 0
  /\ last = NoRequest

Next ==
  \/ \E u \in Users, text \in MainTexts, fail \in BOOLEAN :
       Room(text, fail, MaxRecords) /\ HandleExpense(u, text, fail)
  \/ \E u \in Users, period \in Periods, fail \in BOOLEAN : ShowPeriod(u, period, fail)
  \/ \E u \in Users, failAt \in 0..2 : CategoriesList(u, failAt)
  \/ \E u \in Users, fail \in BOOLEAN : ClearData(u, fail)
  \/ \E u \in Users : Start(u)
  \/ \E d \in TickDays : Tick(d)

Spec == Init /\ [][Next]_vars

(***************************************************************************)
(* The parse alone: one message, received and not yet handled, on an empty *)
(* table.                                                                  *)
(***************************************************************************)
InitParse ==
  /\ store = {}
  /\ nextId = 1
  /\ now = 0
  /\ ticks = 0
  /\ \E u \in Users, text \in ParseTexts :
       last = Request("pending", u, text, "none", FALSE, <<>>, <<>>)

NextParse ==
  \E fail \in BOOLEAN :
    last.kind = "pending" /\ HandleExpense(last.user, last.text, fail)

SpecParse == InitParse /\ [][NextParse]_vars

(***************************************************************************)
(* The report alone: tables of one user filled by messages with long or    *)
(* short labels, many or few per category.                                 *)
(***************************************************************************)
TokOther == <<"a", "x">>
TokSixty == <<"6", "0">>

LabelLens == {0, 270, 420}   \* 0: no label, the amount follows the category
RowCounts == {0, 1, 11, 16}

LongToken(n) == [i \in 1..n |-> "x"]

\* the message of a slot's rows
SlotText(cat, amt, lablen) ==
  IF lablen = 0 THEN Build(<<cat, amt>>, "plain")
  ELSE Build(<<cat, LongToken(lablen), amt>>, "plain")

\* the table after user 1 sent n1 messages of the first slot and then n2 of
\* the second
FilledStore(n1, l1, n2, l2) ==
  LET p1 == Parse(SlotText(TokWord, TokSixty, l1))
      p2 == Parse(SlotText(TokOther, TokAmount, l2))
  IN  {NewRow(i, 1, p1.amount, p1.category, p1.description, 0) : i \in 1..n1}
      \cup {NewRow(n1 + i, 1, p2.amount, p2.category, p2.description, 0) : i \in 1..n2}

InitReport ==
  /\ now = 0
  /\ ticks = 0
  /\ last = NoRequest
  /\ \E n1 \in RowCounts, n2 \in RowCounts, l1 \in LabelLens, l2 \in LabelLens :
       /\ store = FilledStore(n1, l1, n2, l2)
       /\ nextId = n1 + n2 + 1

NextReport == \E period \in Periods : ShowPeriod(1, period, FALSE)

SpecReport == InitReport /\ [][NextReport]_vars

(***************************************************************************)
(* Properties of the parse, checked under SpecParse.                       *)
(***************************************************************************)
Handled == last.kind = "expense"

Tokens == Split(last.text)

Reply == last.replies[1]

Recorded == Handled /\ Len(last.replies) = 1 /\ Reply.kind = "recorded"

PositiveDecimal(tok) ==
  Converts(tok) /\ ToAmount(tok).k = "fin" /\ ToAmount(tok).v > 0

\* the indices, from 1 on, of the tokens that convert
Convertible == {i \in 1..(Len(Tokens) - 1) : Converts(At(Tokens, i))}

FirstConvertible == CHOOSE k \in Convertible : \A j \in Convertible : k <= j

\* C1: a message of two or more tokens with a positive decimal after the
\* first token is parsed, never rejected; unless the store call raises, the
\* table gains exactly one row, of the sender, and the row and the reply
\* carry the lowercased first token as category.
C1_CategoryIsLoweredFirstToken ==
  (Handled /\ Len(Tokens) >= 2
     /\ \E i \in 1..(Len(Tokens) - 1) : PositiveDecimal(At(Tokens, i)))
  => /\ Len(last.replies) = 1
     /\ IF last.failed
          THEN Reply.kind = "error" /\ store = {}
          ELSE /\ Reply.kind = "recorded"
               /\ Reply.category = Lower(At(Tokens, 0))
               /\ Cardinality(store) = 1
               /\ \A r \in store :
                    r.category = Lower(At(Tokens, 0)) /\ r.user_id = last.user

C1_Witness ==
  /\ Recorded
  /\ Len(Tokens) = 3
  /\ Lower(At(Tokens, 0)) # At(Tokens, 0)
  /\ PositiveDecimal(At(Tokens, 2))
  /\ ~PositiveDecimal(At(Tokens, 1))
  /\ Cardinality(store) = 1

\* C2: the amount recorded is the value of the first token, from index 1 on,
\* that converts with ',' read as '.'; no token before it (index 0 apart)
\* converts, and the row holds that value as a REAL.
C2_AmountIsFirstConvertible ==
  Recorded =>
    /\ Convertible # {}
    /\ Reply.amount = FloatOf(ReplaceComma(At(Tokens, FirstConvertible)))
    /\ \A r \in store : r.amount = ToReal(Reply.amount)

C2_Witness ==
  /\ Recorded
  /\ Len(Tokens) = 4
  /\ Converts(At(Tokens, 0))
  /\ FirstConvertible = 2
  /\ Cardinality(Convertible) = 2
  /\ ToAmount(At(Tokens, 0)) # Reply.amount
  /\ ToAmount(At(Tokens, 3)) # Reply.amount
  /\ \E i \in 1..Len(At(Tokens, 2)) : At(Tokens, 2)[i] = ","

\* C3: with the amount at index k, the description is the category when
\* k = 1 and otherwise the tokens of indices 1..k-1 joined by single spaces.
C3_DescriptionBetween ==
  Recorded =>
    LET k == FirstConvertible
        want == IF k = 1 THEN Lower(At(Tokens, 0))
                ELSE IF k = 2 THEN At(Tokens, 1)
                ELSE IF k = 3 THEN At(Tokens, 1) \o <<" ">> \o At(Tokens, 2)
                ELSE At(Tokens, 1) \o <<" ">> \o At(Tokens, 2) \o <<" ">> \o At(Tokens, 3)
    IN  /\ k <= 4
        /\ Reply.description = want
        /\ \A r \in store : r.description = want

C3_Witness ==
  /\ Recorded
  /\ FirstConvertible = 3
  /\ At(Tokens, 1) # At(Tokens, 2)
  /\ Lower(At(Tokens, 1)) # At(Tokens, 1)
  /\ \E r \in store : Len(r.description) = Len(At(Tokens, 1)) + 1 + Len(At(Tokens, 2))

\* C4: a message of fewer than two tokens gets the one reply "too few", a
\* message of two or more tokens none of which converts from index 1 on gets
\* the one reply "no amount", and in both cases the table stays as it was.
C4_RejectionsLeaveStore ==
  [][(last.kind = "pending" /\ last'.kind = "expense")
       => LET toks == Split(last'.text) IN
          /\ last'.text = last.text
          /\ Len(toks) < 2
               => store' = store /\ last'.replies = <<[kind |-> "too_few"]>>
          /\ (Len(toks) >= 2 /\ \A i \in 1..(Len(toks) - 1) : ~Converts(At(toks, i)))
               => store' = store /\ last'.replies = <<[kind |-> "no_amount"]>>]_vars

C4_Witness ==
  /\ Handled
  /\ Len(Tokens) = 3
  /\ last.replies = <<[kind |-> "no_amount"]>>
  /\ \E i \in 1..2 : \E j \in 1..Len(At(Tokens, i)) : At(Tokens, i)[j] \in Digits
  /\ Converts(At(Tokens, 0))
  /\ store = {}

(***************************************************************************)
(* Properties of the handlers over the shared table, checked under Spec.   *)
(***************************************************************************)
\* C5: every row of the table holds a positive finite amount.
C5_AmountsPositiveFinite ==
  \A r \in store : r.amount.k = "fin" /\ r.amount.v > 0

\* C9: every request handled, accepted or rejected, was answered with at
\* least one reply, and a request whose store call raised with an error
\* reply.
C9_EveryRequestAnswered ==
  last.kind \in {"expense", "report", "categories", "clear"}
  => /\ Len(last.replies) >= 1
     /\ last.failed => last.replies[1].kind = "error"

\* C10: a row never changes once in the table; a row leaves the table only
\* by a clear of its owner; a clear removes all rows of the user, reports
\* their number and leaves the rows of the others; reports and listings
\* leave the table as it was.  (A step that moves the clock handles no
\* request: `last` is then the request of an earlier step.)
C10_RowsImmutableClearOwnOnly ==
  [][/\ \A r \in store, r2 \in store' : r.id = r2.id => r = r2
     /\ \A r \in store :
          r \in store'
          \/ (last'.kind = "clear" /\ last'.user = r.user_id /\ ~last'.failed)
     /\ (ticks' = ticks /\ last'.kind = "clear" /\ ~last'.failed)
          => /\ store' = {r \in store : r.user_id # last'.user}
             /\ last'.replies =
                  <<[kind |-> "cleared",
                     deleted |-> Cardinality({r \in store : r.user_id = last'.user})]>>
     /\ last'.kind \in {"report", "categories", "start"} => store' = store]_vars

C10_Witness ==
  /\ last.kind = "clear"
  /\ ~last.failed
  /\ last.replies[1].deleted = 1
  /\ \E r \in store : r.user_id # last.user
  /\ nextId = 3

(***************************************************************************)
(* Properties of the report, checked under SpecReport.                     *)
(***************************************************************************)
Reported == last.kind = "report" /\ ~last.failed /\ last.expenses # <<>>

Blocks == [i \in 1..Len(last.replies) |-> last.replies[i].text]

\* the lines of kind t over all blocks, block by block
RECURSIVE LinesOfKind(_, _)
LinesOfKind(blocks, t) ==
  IF blocks = <<>> THEN <<>>
  ELSE SelectSeq(blocks[1], LAMBDA l : l.t = t) \o LinesOfKind(Tail(blocks), t)

RECURSIVE ExactSum(_)
ExactSum(vs) == IF vs = <<>> THEN 0 ELSE vs[1] + ExactSum(Tail(vs))

PrintedTotals == LinesOfKind(<<Blocks[Len(Blocks)]>>, "total")

PrintedCategoryTotals == LinesOfKind(Blocks, "cat")

\* C6: the grand total printed on the last block is the arithmetic sum of
\* the amounts of all rows returned, shown or hidden, and the sum of the
\* per-category totals printed.
C6_TotalIsSumOfAmounts ==
  Reported =>
    /\ Len(PrintedTotals) = 1
    /\ PrintedTotals[1].total.k = "fin"
    /\ PrintedTotals[1].total.v
         = ExactSum([i \in 1..Len(last.expenses) |-> last.expenses[i].amount.v])
    /\ PrintedTotals[1].total.v
         = ExactSum([i \in 1..Len(PrintedCategoryTotals) |->
                       PrintedCategoryTotals[i].total.v])

Overflowing ==
  /\ Reported
  /\ TextLen(SingleText(SortedCategories(Group(last.expenses)), last.period,
                        GrandTotal(last.expenses))) > SingleLimit

ReportedCategories == {last.expenses[i].category : i \in 1..Len(last.expenses)}

EachCategoryOnce ==
  /\ Len(PrintedCategoryTotals) = Cardinality(ReportedCategories)
  /\ \A c \in ReportedCategories :
       Cardinality({i \in 1..Len(PrintedCategoryTotals) :
                      PrintedCategoryTotals[i].category = Upper(c)}) = 1

\* the length the ten-item texts of all categories have after the header
PagedLength ==
  TextLen(<<HeaderLine(last.period)>>
          \o AllCategoryTexts(SortedCategories(Group(last.expenses)), 1, PagedCap))

\* C7 as stated: a report whose single text exceeds the limit is sent as
\* more than one block, and over all blocks each category appears once.
C7_OverflowGivesSeveralBlocks ==
  Overflowing => Len(Blocks) > 1 /\ EachCategoryOnce

\* C7 amended: a report whose single text exceeds the limit is sent as one
\* or more blocks, more than one whenever the header and the ten-item texts
\* of all categories together exceed the block limit; over all blocks each
\* category appears exactly once.
C7_OverflowGivesBlocksEachCategoryOnce ==
  Overflowing =>
    /\ Len(Blocks) >= 1
    /\ PagedLength > BlockLimit => Len(Blocks) > 1
    /\ EachCategoryOnce

C7_Witness ==
  /\ Overflowing
  /\ Len(Blocks) = 2
  /\ Cardinality(ReportedCategories) = 2
  /\ \A i \in 1..2 : LinesOfKind(<<Blocks[i]>>, "cat") # <<>>

\* C8: no block of a report is longer than the transport takes.
C8_BlocksWithinTelegramMax ==
  Reported => \A i \in 1..Len(Blocks) : TextLen(Blocks[i]) <= TelegramMax

====
